---- MODULE Spec2Model ----
(***************************************************************************)
(* The scene store of the mesh editor (src/unnamed/part_000, the zustand   *)
(* store `useSceneStore`) together with the part of the three.js content   *)
(* hierarchy (Object3D parent, position, rotation, scale) that the store's *)
(* operations read and write.                                              *)
(*                                                                         *)
(* Poses are modelled in the plane: a position is a pair of exact          *)
(* rationals, a rotation is a multiple of a quarter turn about the axis    *)
(* normal to the plane, a scale is a pair of integers.  A transform matrix *)
(* is an integer 2x2 linear part and a rational translation, so that       *)
(* Object3D.matrixWorld, Matrix4.compose and Matrix4.decompose are         *)
(* computed, not assumed.                                                  *)
(***************************************************************************)
EXTENDS Integers, Sequences, FiniteSets, TLC

VARIABLES objects, selectedObject, selectedObjects, transformMode, editMode,
          selectedElements, content, nextId, gizmoUses,
          vertices, dragStart, isDragging, updates

\* the state of the vertex handles (MeshHelpers and its DraggableVertex
\* components): the rendered handle positions, each handle's dragStart ref
\* and isDragging state, and the number of pointer moves that wrote vertices
uiVars == <<vertices, dragStart, isDragging, updates>>

vars == <<objects, selectedObject, selectedObjects, transformMode, editMode,
          selectedElements, content, nextId, gizmoUses,
          vertices, dragStart, isDragging, updates>>

(***************************************************************************)
(* Bounds of the model.                                                    *)
(***************************************************************************)
\* meshes ever inserted with addObject, and identifiers ever generated by
\* crypto.randomUUID(), under Spec
MaxMeshes == 2
MaxIds == 5
\* the same under PoseSpec and under GroupSpec
PoseMaxMeshes == 2
PoseMaxIds == 4
GroupMaxMeshes == 3
GroupMaxIds == 4
\* pose edits made with the transform gizmo
MaxGizmo == 2
\* pointer moves that write vertices, under the specifications of the
\* vertex handles
MaxUpdates == 2
\* meshes and identifiers under VisSpec and under ApiSpec
VisMaxMeshes == 2
VisMaxIds == 3
ApiMaxMeshes == 3
ApiMaxIds == 4

\* `null` / `undefined` of the source
Null == 0

EditModes == {"object", "vertex", "edge", "face"}
TransformModes == {"translate", "rotate", "scale"}

(***************************************************************************)
(* Exact rationals <<n, d>>, d > 0, in lowest terms.                       *)
(***************************************************************************)
Abs(x) == IF x < 0 THEN -x ELSE x

RECURSIVE GCD(_, _)
GCD(a, b) == IF b = 0 THEN a ELSE GCD(b, a % b)

\* a coordinate that is not a number: the result of a division by 0 and of
\* every operation on such a result
NaN == <<0, 0>>

Norm(n, d) == IF d = 0 THEN NaN ELSE LET g == GCD(Abs(n), d) IN <<n \div g, d \div g>>

RInt(k) == <<k, 1>>
RAdd(a, b) == Norm(a[1] * b[2] + b[1] * a[2], a[2] * b[2])
RSub(a, b) == Norm(a[1] * b[2] - b[1] * a[2], a[2] * b[2])
RScale(k, a) == Norm(k * a[1], a[2])
RDivInt(a, k) == Norm(a[1], a[2] * k)

(***************************************************************************)
(* THREE.Vector3 restricted to the plane.                                  *)
(***************************************************************************)
Vec(x, y) == <<RInt(x), RInt(y)>>
ZeroVec == Vec(0, 0)
VAdd(u, v) == <<RAdd(u[1], v[1]), RAdd(u[2], v[2])>>
VSub(u, v) == <<RSub(u[1], v[1]), RSub(u[2], v[2])>>
VDivideScalar(u, k) == <<RDivInt(u[1], k), RDivInt(u[2], k)>>

(***************************************************************************)
(* THREE.Matrix4 restricted to the plane: lin is the 2x2 linear part       *)
(* (a tuple of rows), t the translation column.                            *)
(***************************************************************************)
RotationMatrix(r) ==
    CASE r = 0 -> <<<<1, 0>>, <<0, 1>>>>
      [] r = 1 -> <<<<0, -1>>, <<1, 0>>>>
      [] r = 2 -> <<<<-1, 0>>, <<0, -1>>>>
      [] r = 3 -> <<<<0, 1>>, <<-1, 0>>>>

LinMul(A, B) ==
    << <<A[1][1] * B[1][1] + A[1][2] * B[2][1], A[1][1] * B[1][2] + A[1][2] * B[2][2]>>,
       <<A[2][1] * B[1][1] + A[2][2] * B[2][1], A[2][1] * B[1][2] + A[2][2] * B[2][2]>> >>

LinApply(A, v) ==
    << RAdd(RScale(A[1][1], v[1]), RScale(A[1][2], v[2])),
       RAdd(RScale(A[2][1], v[1]), RScale(A[2][2], v[2])) >>

\* Matrix4.compose(position, quaternion, scale)
Compose(position, rotation, scale) ==
    [lin |-> LinMul(RotationMatrix(rotation), <<<<scale[1], 0>>, <<0, scale[2]>>>>),
     t   |-> position]

\* Matrix4.multiplyMatrices(a, b)
MatMul(A, B) ==
    [lin |-> LinMul(A.lin, B.lin), t |-> VAdd(LinApply(A.lin, B.t), A.t)]

\* Vector3.length() of a matrix column
ColLength(x, y) == CHOOSE n \in 0..(Abs(x) + Abs(y)) :
                      /\ n * n <= x * x + y * y
                      /\ (n + 1) * (n + 1) > x * x + y * y

Determinant(A) == A[1][1] * A[2][2] - A[1][2] * A[2][1]

\* Matrix4.decompose(position, quaternion, scale): the scale is the length of
\* each column, the first negated when the determinant is negative; the
\* rotation is read from the columns divided by the scale.
Decompose(M) ==
    LET len1 == ColLength(M.lin[1][1], M.lin[2][1])
        sx == IF Determinant(M.lin) < 0 THEN -len1 ELSE len1
        sy == ColLength(M.lin[1][2], M.lin[2][2])
        rot == << <<M.lin[1][1] \div sx, M.lin[1][2] \div sy>>,
                  <<M.lin[2][1] \div sx, M.lin[2][2] \div sy>> >>
    IN [position |-> M.t,
        rotation |-> CHOOSE r \in 0..3 : RotationMatrix(r) = rot,
        scale    |-> <<sx, sy>>]

(***************************************************************************)
(* The content hierarchy: content[h] is the THREE.Object3D with handle h.  *)
(***************************************************************************)
\* Object3D.matrix after updateMatrix()
LocalMatrix(c, h) == Compose(c[h].position, c[h].rotation, c[h].scale)

\* Object3D.matrixWorld after updateWorldMatrix(true, false)
RECURSIVE WorldMatrix(_, _)
WorldMatrix(c, h) ==
    IF c[h].parent = Null THEN LocalMatrix(c, h)
    ELSE MatMul(WorldMatrix(c, c[h].parent), LocalMatrix(c, h))

\* Object3D.getWorldPosition(target)
GetWorldPosition(c, h) == WorldMatrix(c, h).t

\* world position, rotation and scale (getWorldPosition, getWorldQuaternion,
\* getWorldScale all decompose matrixWorld)
WorldPose(c, h) == Decompose(WorldMatrix(c, h))

\* a THREE.BufferGeometry of the plane: position.array[i + 1] is vertex i,
\* version counts the times position.needsUpdate was set.  History kept
\* with it: dirtyArray is the array as it was when needsUpdate was last
\* set, normalsVersion and normalsArray the version and the array
\* computeVertexNormals last read.
BufferGeometry(array, index) ==
    [position |-> [array |-> array, version |-> 0, dirtyArray |-> array],
     index |-> index,
     normalsVersion |-> 0,
     normalsArray |-> array]

\* new THREE.BoxGeometry() restricted to the plane: one face of the unit
\* box, four vertices and two triangles
Half(n) == <<n, 2>>

BoxGeometry ==
    BufferGeometry(<< <<Half(-1), Half(1)>>, <<Half(1), Half(1)>>,
                      <<Half(-1), Half(-1)>>, <<Half(1), Half(-1)>> >>,
                   <<0, 2, 1, 2, 3, 1>>)

\* a group has no geometry
NoGeometry == BufferGeometry(<<>>, <<>>)

\* new THREE.Mesh(geometry, material); mesh.position.set(0, 0, 0)
NewMesh == [kind |-> "Mesh", parent |-> Null, position |-> ZeroVec,
            rotation |-> 0, scale |-> <<1, 1>>, geometry |-> BoxGeometry]

\* new THREE.Group()
NewGroup == [kind |-> "Group", parent |-> Null, position |-> ZeroVec,
             rotation |-> 0, scale |-> <<1, 1>>, geometry |-> NoGeometry]

(***************************************************************************)
(* Helpers over the object list.                                           *)
(***************************************************************************)
Range(s) == {s[i] : i \in DOMAIN s}

Ids(objs) == {o.id : o \in Range(objs)}

\* state.objects.find(obj => obj.id === id); Null when there is none
Find(objs, id) ==
    IF id \in Ids(objs) THEN (CHOOSE o \in Range(objs) : o.id = id).object
    ELSE Null

IsGroup(c, o) == c[o.object].kind = "Group"

\* the visible flag of the object with this id
ObjectVisible(objs, id) == (CHOOSE o \in Range(objs) : o.id = id).visible

Init ==
    /\ objects = <<>>
    /\ selectedObject = Null
    /\ selectedObjects = {}
    /\ transformMode = "translate"
    /\ editMode = "object"
    /\ selectedElements = <<>>
    /\ content = <<>>
    /\ nextId = 1
    /\ gizmoUses = 0
    /\ vertices = <<>>
    /\ dragStart = <<>>
    /\ isDragging = <<>>
    /\ updates = 0

(***************************************************************************)
(* addObject, as Toolbar.createObject calls it: a new mesh at the origin,  *)
(* no parentId.                                                            *)
(***************************************************************************)
MeshNames == {"Cube"}

MeshCount == Cardinality({h \in DOMAIN content : content[h].kind = "Mesh"})

\* the new entry recorded as its own parent
AddObjectObjectsSelfParent(objs, id, object, name, parentId) ==
    Append(objs, [id |-> id, object |-> object, name |-> name,
                  visible |-> TRUE, parentId |-> id])

AddObjectObjects(objs, id, object, name, parentId) ==
    Append(objs, [id |-> id, object |-> object, name |-> name,
                  visible |-> TRUE, parentId |-> parentId])

addObject(name) ==
    /\ content' = Append(content, NewMesh)
    /\ objects' = AddObjectObjects(objects, nextId, Len(content) + 1, name, Null)
    /\ nextId' = nextId + 1
    /\ UNCHANGED <<selectedObject, selectedObjects, transformMode, editMode,
                   selectedElements, gizmoUses>>

\* addObject called with a parentId: the store records the parentId as given
\* and does not touch the content hierarchy
addObjectWithParent(name, parentId) ==
    /\ content' = Append(content, NewMesh)
    /\ objects' = AddObjectObjects(objects, nextId, Len(content) + 1, name, parentId)
    /\ nextId' = nextId + 1
    /\ UNCHANGED <<selectedObject, selectedObjects, transformMode, editMode,
                   selectedElements, gizmoUses>>

(***************************************************************************)
(* removeObject                                                            *)
(***************************************************************************)
IdsToRemove(objs, id) ==
    {id} \cup {o.id : o \in {x \in Range(objs) : x.parentId = id}}

RemoveObjectObjects(objs, id) ==
    LET gone == IdsToRemove(objs, id)
        Keep(o) == o.id \notin gone
    IN SelectSeq(objs, Keep)

RemoveObjectSelectedObject(objs, sel, id) ==
    IF id \in Ids(objs) /\ Find(objs, id) = sel THEN Null ELSE sel

\* only the removed id itself taken out of the multi-selection
RemoveObjectSelectedObjectsOnlyId(objs, sels, id) == sels \ {id}

RemoveObjectSelectedObjects(objs, sels, id) == sels \ IdsToRemove(objs, id)

removeObject(id) ==
    /\ objects' = RemoveObjectObjects(objects, id)
    /\ selectedObject' = RemoveObjectSelectedObject(objects, selectedObject, id)
    /\ selectedObjects' = RemoveObjectSelectedObjects(objects, selectedObjects, id)
    /\ UNCHANGED <<transformMode, editMode, selectedElements, content, nextId, gizmoUses>>

(***************************************************************************)
(* setSelectedObject, toggleObjectSelection, clearSelection                *)
(***************************************************************************)
\* the multi-selection left as it was
setSelectedObjectKeepingMulti(object) ==
    /\ selectedObject' = object
    /\ selectedElements' = <<>>
    /\ UNCHANGED <<objects, selectedObjects, transformMode, editMode, content,
                   nextId, gizmoUses>>

setSelectedObject(object) ==
    /\ selectedObject' = object
    /\ selectedObjects' = {}
    /\ selectedElements' = <<>>
    /\ UNCHANGED <<objects, transformMode, editMode, content, nextId, gizmoUses>>

\* the id added whether or not it is in the set
ToggledSelectionAddOnly(sels, id) == sels \cup {id}

ToggledSelection(sels, id) ==
    IF id \in sels THEN sels \ {id} ELSE sels \cup {id}

\* the object promoted to primary selection, Null when there is no promotion
ToggleFound(objs, sels, id) ==
    IF Cardinality(ToggledSelection(sels, id)) = 1 THEN Find(objs, id) ELSE Null

toggleObjectSelection(id) ==
    /\ selectedObjects' = ToggledSelection(selectedObjects, id)
    /\ IF ToggleFound(objects, selectedObjects, id) # Null
       THEN /\ selectedObject' = ToggleFound(objects, selectedObjects, id)
            /\ selectedElements' = <<>>
       ELSE UNCHANGED <<selectedObject, selectedElements>>
    /\ UNCHANGED <<objects, transformMode, editMode, content, nextId, gizmoUses>>

clearSelection ==
    /\ selectedObjects' = {}
    /\ selectedElements' = <<>>
    /\ UNCHANGED <<objects, selectedObject, transformMode, editMode, content, nextId, gizmoUses>>

(***************************************************************************)
(* setTransformMode, setEditMode, selectElements, clearElementSelection    *)
(***************************************************************************)
setTransformMode(mode) ==
    /\ transformMode' = mode
    /\ UNCHANGED <<objects, selectedObject, selectedObjects, editMode,
                   selectedElements, content, nextId, gizmoUses>>

\* the element selection left as it was
setEditModeKeepingElements(mode) ==
    /\ editMode' = mode
    /\ UNCHANGED <<objects, selectedObject, selectedObjects, transformMode,
                   selectedElements, content, nextId, gizmoUses>>

setEditMode(mode) ==
    /\ editMode' = mode
    /\ selectedElements' = <<>>
    /\ UNCHANGED <<objects, selectedObject, selectedObjects, transformMode,
                   content, nextId, gizmoUses>>

selectElements(indices) ==
    /\ selectedElements' = indices
    /\ UNCHANGED <<objects, selectedObject, selectedObjects, transformMode,
                   editMode, content, nextId, gizmoUses>>

\* MeshHelpers.handleElementSelect: the vertex handles are rendered only
\* while the primary selection is a mesh and editMode is vertex, and a click
\* on one calls selectElements([index])
handleElementSelect(index) ==
    /\ selectedObject # Null
    /\ content[selectedObject].kind = "Mesh"
    /\ editMode = "vertex"
    /\ selectElements(<<index>>)

clearElementSelection ==
    /\ selectedElements' = <<>>
    /\ UNCHANGED <<objects, selectedObject, selectedObjects, transformMode,
                   editMode, content, nextId, gizmoUses>>

(***************************************************************************)
(* toggleVisibility                                                        *)
(***************************************************************************)
ToggleVisibilityObjects(objs, id) ==
    [i \in DOMAIN objs |->
        IF objs[i].id = id THEN [objs[i] EXCEPT !.visible = ~objs[i].visible]
        ELSE objs[i]]

\* the primary selection left as it was
ToggleVisibilityKeepsSelected(objs, sel, id) == sel

\* newSelectedObject: null when the toggled object is now hidden and its
\* content is the primary selection
ToggleVisibilitySelectedObject(objs, sel, id) ==
    LET updatedObjects == ToggleVisibilityObjects(objs, id)
    IN IF /\ id \in Ids(updatedObjects)
          /\ ~ObjectVisible(updatedObjects, id)
          /\ Find(updatedObjects, id) = sel
       THEN Null ELSE sel

toggleVisibility(id) ==
    /\ objects' = ToggleVisibilityObjects(objects, id)
    /\ selectedObject' = ToggleVisibilitySelectedObject(objects, selectedObject, id)
    /\ UNCHANGED <<selectedObjects, transformMode, editMode, selectedElements,
                   content, nextId, gizmoUses>>

(***************************************************************************)
(* updateObjectName, and the layers panel's saveEdit that calls it         *)
(***************************************************************************)
UpdateObjectNameObjects(objs, id, name) ==
    [i \in DOMAIN objs |->
        IF objs[i].id = id THEN [objs[i] EXCEPT !.name = name] ELSE objs[i]]

updateObjectName(id, name) ==
    /\ objects' = UpdateObjectNameObjects(objects, id, name)
    /\ UNCHANGED <<selectedObject, selectedObjects, transformMode, editMode,
                   selectedElements, content, nextId, gizmoUses>>

\* String.prototype.trim on names whose only white space is the blank
RECURSIVE TrimStart(_)
TrimStart(str) ==
    IF str # "" /\ SubSeq(str, 1, 1) = " "
    THEN TrimStart(SubSeq(str, 2, Len(str))) ELSE str

RECURSIVE TrimEnd(_)
TrimEnd(str) ==
    IF str # "" /\ SubSeq(str, Len(str), Len(str)) = " "
    THEN TrimEnd(SubSeq(str, 1, Len(str) - 1)) ELSE str

Trim(str) == TrimEnd(TrimStart(str))

\* the name passed on without the test of line 176
saveEditUnguarded(editingId, editingName) ==
    updateObjectName(editingId, Trim(editingName))

\* LayersPanel.saveEdit.  editingId and editingName are the panel's own
\* state: the id startEditing was called with (Null when no row is being
\* edited) and the text typed into the input.  setEditingId(null) changes
\* the panel only.
saveEdit(editingId, editingName) ==
    IF editingId # Null /\ Trim(editingName) # ""
    THEN updateObjectName(editingId, Trim(editingName))
    ELSE UNCHANGED <<objects, selectedObject, selectedObjects, transformMode, editMode,
                     selectedElements, content, nextId, gizmoUses>>

(***************************************************************************)
(* createGroup                                                             *)
(***************************************************************************)
\* the loop of lines 172-180: the sum of the world positions of the selected
\* objects that are in the store
RECURSIVE SumWorldPositions(_, _, _)
SumWorldPositions(objs, c, sels) ==
    IF objs = <<>> THEN ZeroVec
    ELSE IF Head(objs).id \in sels
         THEN VAdd(GetWorldPosition(c, Head(objs).object),
                   SumWorldPositions(Tail(objs), c, sels))
         ELSE SumWorldPositions(Tail(objs), c, sels)

FoundCount(objs, sels) == Cardinality(Ids(objs) \cap sels)

\* the center without the division by the count
GroupCenterNotDivided(objs, c, sels) == SumWorldPositions(objs, c, sels)

GroupCenter(objs, c, sels) ==
    IF FoundCount(objs, sels) > 0
    THEN VDivideScalar(SumWorldPositions(objs, c, sels), FoundCount(objs, sels))
    ELSE ZeroVec

\* lines 189-192 for one member: position.copy(worldPosition.sub(center)),
\* group.add(obj.object)
MoveIntoGroup(c, h, center, g) ==
    [c EXCEPT ![h].position = VSub(GetWorldPosition(c, h), center),
              ![h].parent = g]

\* the map of lines 187-196 on the content hierarchy, in list order
RECURSIVE GroupContent(_, _, _, _, _)
GroupContent(objs, c, sels, center, g) ==
    IF objs = <<>> THEN c
    ELSE IF Head(objs).id \in sels
         THEN GroupContent(Tail(objs), MoveIntoGroup(c, Head(objs).object, center, g),
                           sels, center, g)
         ELSE GroupContent(Tail(objs), c, sels, center, g)

\* the map of lines 187-196 on the object list
GroupMembers(objs, sels, groupId) ==
    [i \in DOMAIN objs |->
        IF objs[i].id \in sels THEN [objs[i] EXCEPT !.parentId = groupId] ELSE objs[i]]

\* `Group ${updatedObjects.filter(obj => obj.object instanceof THREE.Group).length + 1}`
GroupName(objs, c) ==
    "Group " \o ToString(Cardinality({i \in DOMAIN objs : IsGroup(c, objs[i])}) + 1)

\* the members re-parented, the group itself not pushed
GroupObjectsWithoutGroup(objs, c, sels, groupId, g) ==
    GroupMembers(objs, sels, groupId)

GroupObjects(objs, c, sels, groupId, g) ==
    Append(GroupMembers(objs, sels, groupId),
           [id |-> groupId, object |-> g, name |-> GroupName(objs, c),
            visible |-> TRUE, parentId |-> Null])

\* the content hierarchy after createGroup: the new group, placed at the
\* center (lines 165, 182-185), then the members moved into it
CreateGroupContent(objs, c, sels) ==
    LET g == Len(c) + 1
        center == GroupCenter(objs, c, sels)
        withGroup == Append(c, [NewGroup EXCEPT !.position = center])
    IN GroupContent(objs, withGroup, sels, center, g)

\* the guard refusing only an empty multi-selection
CreateGroupRefusedWhenEmpty(sels) == Cardinality(sels) < 1

\* the guard of line 163
CreateGroupRefused(sels) == Cardinality(sels) < 2

createGroup ==
    IF CreateGroupRefused(selectedObjects)
    THEN UNCHANGED vars
    ELSE LET g == Len(content) + 1
         IN /\ nextId' = nextId + 1
            /\ selectedObjects' = {nextId}
            /\ selectedObject' = g
            /\ objects' = GroupObjects(objects, content, selectedObjects, nextId, g)
            /\ content' = CreateGroupContent(objects, content, selectedObjects)
            /\ UNCHANGED <<transformMode, editMode, selectedElements, gizmoUses>>

(***************************************************************************)
(* ungroup                                                                 *)
(***************************************************************************)
\* Object3D.applyMatrix4(matrix): matrix.premultiply, then decompose into
\* position, quaternion and scale
\* the matrix multiplied on the right instead of the left
ApplyMatrix4Postmultiplied(o, M) ==
    LET d == Decompose(MatMul(Compose(o.position, o.rotation, o.scale), M))
    IN [o EXCEPT !.position = d.position, !.rotation = d.rotation, !.scale = d.scale]

ApplyMatrix4(o, M) ==
    LET d == Decompose(MatMul(M, Compose(o.position, o.rotation, o.scale)))
    IN [o EXCEPT !.position = d.position, !.rotation = d.rotation, !.scale = d.scale]

\* Object3D.removeFromParent()
RemoveFromParent(o) == [o EXCEPT !.parent = Null]

\* the objects ungroup treats as the group's children
UngroupChildren(objs, groupId) ==
    {o.object : o \in {x \in Range(objs) : x.id # groupId /\ x.parentId = groupId}}

UngroupContent(objs, c, groupId) ==
    LET worldMatrix == WorldMatrix(c, Find(objs, groupId))
    IN [h \in DOMAIN c |->
          IF h \in UngroupChildren(objs, groupId)
          THEN RemoveFromParent(ApplyMatrix4(c[h], worldMatrix))
          ELSE c[h]]

UngroupObjects(objs, groupId) ==
    LET Keep(o) == o.id # groupId
        kept == SelectSeq(objs, Keep)
    IN [i \in DOMAIN kept |->
          IF kept[i].parentId = groupId THEN [kept[i] EXCEPT !.parentId = Null]
          ELSE kept[i]]

\* the guard of line 216: the object was found
UngroupFound(objs, c, groupId) == groupId \in Ids(objs)

ungroup(groupId) ==
    IF ~UngroupFound(objects, content, groupId)
    THEN UNCHANGED vars
    ELSE /\ selectedObjects' = {}
         /\ selectedObject' = Null
         /\ objects' = UngroupObjects(objects, groupId)
         /\ content' = UngroupContent(objects, content, groupId)
         /\ UNCHANGED <<transformMode, editMode, selectedElements, nextId, gizmoUses>>

(***************************************************************************)
(* The transform gizmo (TransformControls of Scene.tsx): attached to the   *)
(* primary selection in object mode, it writes the position, the rotation  *)
(* or the scale of that object, as transformMode says.                     *)
(***************************************************************************)
GizmoPositions == {Vec(1, 0)}
GizmoRotations == {1}
GizmoScales == {<<2, 1>>}

GizmoApply(o, mode, p, r, s) ==
    CASE mode = "translate" -> [o EXCEPT !.position = p]
      [] mode = "rotate"    -> [o EXCEPT !.rotation = r]
      [] mode = "scale"     -> [o EXCEPT !.scale = s]

transformControls(p, r, s) ==
    /\ selectedObject # Null
    /\ editMode = "object"
    /\ content' = [content EXCEPT ![selectedObject] =
                      GizmoApply(content[selectedObject], transformMode, p, r, s)]
    /\ content' # content
    /\ gizmoUses < MaxGizmo
    /\ gizmoUses' = gizmoUses + 1
    /\ UNCHANGED <<objects, selectedObject, selectedObjects, transformMode,
                   editMode, selectedElements, nextId>>

(***************************************************************************)
(* The vertex handles: MeshHelpers renders one DraggableVertex per vertex  *)
(* of the primary selection while it is a mesh and editMode is vertex.     *)
(* Handle i keeps its own dragStart ref (and isDragging state) for as long *)
(* as it is mounted.                                                       *)
(***************************************************************************)
\* no drag session: dragStart.current is null / undefined
NoDrag == <<>>

\* positionAttribute.count and the vertex indices
VertexCount(geometry) == Len(geometry.position.array)
VertexIndices(geometry) == 0 .. (VertexCount(geometry) - 1)

\* new THREE.Vector3().fromBufferAttribute(positionAttribute, i)
FromBufferAttribute(positionAttribute, i) == positionAttribute.array[i + 1]

\* positionAttribute.setXYZ(i, x, y, z)
SetXYZ(positionAttribute, i, v) == [positionAttribute EXCEPT !.array[i + 1] = v]

\* Vector3.applyMatrix4(m) for an affine matrix
ApplyMatrix4Vec(v, M) == VAdd(LinApply(M.lin, v), M.t)

\* Vector3.multiplyScalar(s) for a rational s
RMul(a, b) == Norm(a[1] * b[1], a[2] * b[2])
VMultiplyScalar(v, s) == <<RMul(v[1], s), RMul(v[2], s)>>

\* delta.applyMatrix4(matrixWorld.clone().invert()): the inverse applied to
\* delta as to a point, translation included.  invert() of a matrix whose
\* determinant is 0 is the zero matrix, and applyMatrix4 then divides by 0.
Adjugate(A) == << <<A[2][2], -A[1][2]>>, <<-A[2][1], A[1][1]>> >>

ApplyInverse(delta, M) ==
    LET det == Determinant(M.lin)
        moved == LinApply(Adjugate(M.lin), VSub(delta, M.t))
    IN IF det = 0 THEN <<NaN, NaN>>
       ELSE IF det > 0 THEN VDivideScalar(moved, det)
       ELSE VDivideScalar(VSub(ZeroVec, moved), -det)

\* MeshHelpers returns the handles only in this case
HandlesMounted(sel, c, mode) ==
    /\ sel # Null
    /\ c[sel].kind = "Mesh"
    /\ mode = "vertex"

\* every handle taken as selected
SelectedAlways(elements, i) == TRUE

\* the `selected` prop of a handle: selectedElements.includes(vertexIndex)
Selected(elements, i) == \E k \in DOMAIN elements : elements[k] = i

\* Number.toFixed(6) of a rational, as the integer number of millionths:
\* the digits are produced one by one, the last rounded half up
RECURSIVE FixedDigits(_, _, _, _)
FixedDigits(f, r, d, k) ==
    IF k = 0 THEN f + (IF 2 * r >= d THEN 1 ELSE 0)
    ELSE FixedDigits(10 * f + (10 * r) \div d, (10 * r) % d, d, k - 1)

ToFixed6(x) ==
    LET n == Abs(x[1])
        m == FixedDigits(n \div x[2], n % x[2], x[2], 6)
    IN IF x[1] < 0 THEN -m ELSE m

\* the key `${vertex.x.toFixed(6)},${vertex.y.toFixed(6)},...`
VertexKey(v) == <<ToFixed6(v[1]), ToFixed6(v[2])>>

\* vertex i of mesh h in world space
WorldVertex(c, h, i) ==
    ApplyMatrix4Vec(FromBufferAttribute(c[h].geometry.position, i), WorldMatrix(c, h))

\* the vertexIndices of MeshHelpers: every vertex index, or, when the
\* component keeps unique vertices only, the first index of every key
HandleVertexIndices(c, h, unique) ==
    LET Kept(i) == \/ ~unique
                   \/ \A j \in 0 .. (i - 1) :
                         VertexKey(WorldVertex(c, h, j)) # VertexKey(WorldVertex(c, h, i))
        Test(k) == Kept(k - 1)
        all == [k \in 1 .. VertexCount(c[h].geometry) |-> k]
        kept == SelectSeq(all, Test)
    IN [k \in DOMAIN kept |-> kept[k] - 1]

\* MeshHelpers: handle i (key i) is placed at vertices[i] and drives
\* vertex vertexIndices[i]
MeshHelpersVertices(c, h, unique) ==
    LET vertexIndices == HandleVertexIndices(c, h, unique)
    IN [i \in 0 .. (Len(vertexIndices) - 1) |->
          [vertex |-> WorldVertex(c, h, vertexIndices[i + 1]),
           vertexIndex |-> vertexIndices[i + 1]]]

\* A store update re-renders MeshHelpers: the handles are placed at the
\* vertices' world positions; handles that stay mounted keep their refs,
\* newly mounted ones start without a session, unmounted ones are gone.
Rerender(unique) ==
    /\ IF HandlesMounted(selectedObject', content', editMode')
       THEN /\ vertices' = MeshHelpersVertices(content', selectedObject', unique)
            /\ dragStart' = [i \in DOMAIN vertices' |->
                               IF i \in DOMAIN dragStart THEN dragStart[i] ELSE NoDrag]
            /\ isDragging' = [i \in DOMAIN vertices' |->
                                IF i \in DOMAIN isDragging THEN isDragging[i] ELSE FALSE]
       ELSE /\ vertices' = <<>>
            /\ dragStart' = <<>>
            /\ isDragging' = <<>>
    /\ UNCHANGED updates

\* the onClick of handle i: handleElementSelect(i), that is
\* selectElements([vertexIndices[i]])
onClick(i) ==
    /\ i \in DOMAIN vertices
    /\ selectElements(<<vertices[i].vertexIndex>>)

\* the faces the loops of calculateVertexConnections visit
Faces(geometry) ==
    IF geometry.index # <<>>
    THEN [k \in 1 .. (Len(geometry.index) \div 3) |->
             <<geometry.index[3 * k - 2], geometry.index[3 * k - 1], geometry.index[3 * k]>>]
    ELSE [k \in 1 .. ((VertexCount(geometry) + 2) \div 3) |->
             <<3 * k - 3, 3 * k - 2, 3 * k - 1>>]

\* lines 34-37 for one edge (v1, v2): both keys created, each pushed onto
\* the other's list unless already there
Connect(connections, v1, v2) ==
    LET Get(m, k) == IF k \in DOMAIN m THEN m[k] ELSE <<>>
        Push(list, v) == IF v \in Range(list) THEN list ELSE Append(list, v)
        list1 == Push(Get(connections, v1), v2)
        keyed == [k \in DOMAIN connections \cup {v1, v2} |->
                     IF k = v1 THEN list1 ELSE Get(connections, k)]
    IN [keyed EXCEPT ![v2] = Push(keyed[v2], v1)]

\* the edge from the third vertex back to the first left out
ConnectFaceTwoEdges(connections, face) ==
    Connect(Connect(connections, face[1], face[2]), face[2], face[3])

ConnectFace(connections, face) ==
    Connect(Connect(Connect(connections, face[1], face[2]), face[2], face[3]),
            face[3], face[1])

RECURSIVE ConnectFaces(_, _)
ConnectFaces(connections, faces) ==
    IF faces = <<>> THEN connections
    ELSE ConnectFaces(ConnectFace(connections, Head(faces)), Tail(faces))

\* calculateVertexConnections(): a map from vertex index to neighbour list
calculateVertexConnections(geometry) == ConnectFaces(<<>>, Faces(geometry))

\* connections.get(vertexIndex) || []
ConnectedVertices(connections, i) ==
    IF i \in DOMAIN connections THEN Range(connections[i]) ELSE {}

(***************************************************************************)
(* DraggableVertex of Scene.tsx, lines 7-128: the drag session keeps the   *)
(* pointer point, a copy of the vertex positions and the connections.      *)
(* pointAtDown is history, read by no handler: the point of the pointer    *)
(* down that opened the session.                                           *)
(***************************************************************************)
onPointerDown(i, point) ==
    /\ i \in DOMAIN dragStart
    /\ IF Selected(selectedElements, vertices[i].vertexIndex)
       THEN LET geometry == content[selectedObject].geometry
            IN dragStart' = [dragStart EXCEPT ![i] =
                  [point |-> point,
                   pointAtDown |-> point,
                   vertexPositions |-> geometry.position.array,
                   vertexConnections |-> calculateVertexConnections(geometry)]]
       ELSE UNCHANGED dragStart
    /\ UNCHANGED <<objects, selectedObject, selectedObjects, transformMode, editMode,
                   selectedElements, content, nextId, gizmoUses, vertices,
                   isDragging, updates>>

\* the falloff of line 90
ConnectedFalloff == <<1, 2>>

\* the loop of lines 81-96: the dragged vertex and its connected vertices
\* are set from the session's copy of the positions
MoveFromSnapshot(positionAttribute, session, i, localDelta) ==
    LET connectedVertices == ConnectedVertices(session.vertexConnections, i)
    IN [positionAttribute EXCEPT !.array =
          [j \in DOMAIN positionAttribute.array |->
             IF j - 1 = i
             THEN VAdd(session.vertexPositions[j], localDelta)
             ELSE IF (j - 1) \in connectedVertices
                  THEN VAdd(session.vertexPositions[j],
                            VMultiplyScalar(localDelta, ConnectedFalloff))
                  ELSE positionAttribute.array[j]]]

\* the dirty mark and the normals taken before the vertices are written
MarkUpdatedEarly(geometry, positionAttribute) ==
    [geometry EXCEPT !.position = [positionAttribute EXCEPT
                                      !.version = @ + 1,
                                      !.dirtyArray = geometry.position.array],
                     !.normalsVersion = positionAttribute.version + 1,
                     !.normalsArray = geometry.position.array]

\* positionAttribute.needsUpdate = true; geometry.computeVertexNormals(),
\* in this order, after the vertices were written
MarkUpdated(geometry, positionAttribute) ==
    [geometry EXCEPT !.position = [positionAttribute EXCEPT
                                      !.version = @ + 1,
                                      !.dirtyArray = positionAttribute.array],
                     !.normalsVersion = positionAttribute.version + 1,
                     !.normalsArray = positionAttribute.array]

\* the position buffer marked dirty whether or not a session is open
onPointerMoveMarking(i, point) ==
    /\ i \in DOMAIN dragStart
    /\ LET geometry == content[selectedObject].geometry
       IN content' = [content EXCEPT ![selectedObject].geometry =
                         MarkUpdated(geometry, geometry.position)]
    /\ updates' = updates + 1
    /\ UNCHANGED <<objects, selectedObject, selectedObjects, transformMode, editMode,
                   selectedElements, nextId, gizmoUses, vertices, dragStart, isDragging>>

onPointerMove(i, point) ==
    /\ i \in DOMAIN dragStart
    /\ IF dragStart[i] = NoDrag \/ ~Selected(selectedElements, vertices[i].vertexIndex)
       THEN UNCHANGED vars
       ELSE LET geometry == content[selectedObject].geometry
                vertexIndex == vertices[i].vertexIndex
                delta == VSub(point, dragStart[i].point)
                localDelta == ApplyInverse(delta, WorldMatrix(content, selectedObject))
                moved == MoveFromSnapshot(geometry.position, dragStart[i], vertexIndex,
                                          localDelta)
            IN /\ content' = [content EXCEPT ![selectedObject].geometry =
                                 MarkUpdated(geometry, moved)]
               /\ dragStart' = [dragStart EXCEPT ![i].point = point]
               /\ updates' = updates + 1
               /\ UNCHANGED <<objects, selectedObject, selectedObjects, transformMode,
                              editMode, selectedElements, nextId, gizmoUses, vertices,
                              isDragging>>

onPointerUp(i) ==
    /\ i \in DOMAIN dragStart
    /\ dragStart' = [dragStart EXCEPT ![i] = NoDrag]
    /\ UNCHANGED <<objects, selectedObject, selectedObjects, transformMode, editMode,
                   selectedElements, content, nextId, gizmoUses, vertices,
                   isDragging, updates>>

(***************************************************************************)
(* DraggableVertex of part_001, lines 239-315: only the dragged vertex     *)
(* moves; the session is the pointer point and the isDragging state.       *)
(***************************************************************************)
onPointerDownDirect(i, point) ==
    /\ i \in DOMAIN dragStart
    /\ IF Selected(selectedElements, vertices[i].vertexIndex)
       THEN /\ isDragging' = [isDragging EXCEPT ![i] = TRUE]
            /\ dragStart' = [dragStart EXCEPT ![i] = [point |-> point]]
       ELSE UNCHANGED <<isDragging, dragStart>>
    /\ UNCHANGED <<objects, selectedObject, selectedObjects, transformMode, editMode,
                   selectedElements, content, nextId, gizmoUses, vertices, updates>>

\* the dragged vertex and the vertex after it both moved
MoveDirectWithNext(positionAttribute, vertexIndex, localDelta) ==
    LET next == (vertexIndex + 1) % Len(positionAttribute.array)
        first == SetXYZ(positionAttribute, vertexIndex,
                        VAdd(FromBufferAttribute(positionAttribute, vertexIndex), localDelta))
    IN SetXYZ(first, next, VAdd(FromBufferAttribute(first, next), localDelta))

\* lines 267-271: originalPos.clone().add(localDelta) written to the vertex
MoveDirect(positionAttribute, vertexIndex, localDelta) ==
    SetXYZ(positionAttribute, vertexIndex,
           VAdd(FromBufferAttribute(positionAttribute, vertexIndex), localDelta))

onPointerMoveDirect(i, point) ==
    /\ i \in DOMAIN dragStart
    /\ IF \/ dragStart[i] = NoDrag
          \/ ~Selected(selectedElements, vertices[i].vertexIndex)
          \/ ~isDragging[i]
       THEN UNCHANGED vars
       ELSE LET geometry == content[selectedObject].geometry
                worldDelta == VSub(point, dragStart[i].point)
                localDelta == ApplyInverse(worldDelta, WorldMatrix(content, selectedObject))
                moved == MoveDirect(geometry.position, vertices[i].vertexIndex, localDelta)
            IN /\ content' = [content EXCEPT ![selectedObject].geometry =
                                 MarkUpdated(geometry, moved)]
               /\ dragStart' = [dragStart EXCEPT ![i] = [point |-> point]]
               /\ updates' = updates + 1
               /\ UNCHANGED <<objects, selectedObject, selectedObjects, transformMode,
                              editMode, selectedElements, nextId, gizmoUses, vertices,
                              isDragging>>

\* isDragging left as it was
onPointerUpKeepingDragging(i) ==
    /\ i \in DOMAIN dragStart
    /\ dragStart' = [dragStart EXCEPT ![i] = NoDrag]
    /\ UNCHANGED <<objects, selectedObject, selectedObjects, transformMode, editMode,
                   selectedElements, content, nextId, gizmoUses, vertices,
                   isDragging, updates>>

onPointerUpDirect(i) ==
    /\ i \in DOMAIN dragStart
    /\ dragStart' = [dragStart EXCEPT ![i] = NoDrag]
    /\ isDragging' = [isDragging EXCEPT ![i] = FALSE]
    /\ UNCHANGED <<objects, selectedObject, selectedObjects, transformMode, editMode,
                   selectedElements, content, nextId, gizmoUses, vertices, updates>>

(***************************************************************************)
(* DraggableVertex of part_001, lines 7-97: the dragged vertex moves by    *)
(* the local delta, the vertices sharing a face with it by the delta       *)
(* weighted with 1 / (1 + distance).                                       *)
(***************************************************************************)
\* the largest r in lo .. hi with r * r <= n
RECURSIVE ISqrtBetween(_, _, _)
ISqrtBetween(n, lo, hi) ==
    IF lo = hi THEN lo
    ELSE LET mid == (lo + hi + 1) \div 2
         IN IF mid * mid <= n THEN ISqrtBetween(n, mid, hi)
            ELSE ISqrtBetween(n, lo, mid - 1)

ISqrt(n) == ISqrtBetween(n, 0, IF n < 46340 THEN n ELSE 46340)

\* the binary digits Math.sqrt keeps of a root that is not rational
SqrtScale == 16

\* Math.sqrt: exact where the root is rational, rounded down to a multiple
\* of 1 / SqrtScale of the denominator otherwise
RSqrt(x) ==
    LET nd == x[1] * x[2]
        r == ISqrt(nd)
    IN IF r * r = nd THEN Norm(r, x[2])
       ELSE Norm(ISqrt(nd * SqrtScale * SqrtScale), x[2] * SqrtScale)

\* Vector3.distanceToSquared and Vector3.distanceTo
DistanceToSquared(u, v) ==
    LET dx == RSub(u[1], v[1])
        dy == RSub(u[2], v[2])
    IN RAdd(RMul(dx, dx), RMul(dy, dy))

DistanceTo(u, v) == RSqrt(DistanceToSquared(u, v))

\* line 61: weight = 1 / (1 + distance)
ConnectedWeight(distance) ==
    LET sum == RAdd(RInt(1), distance) IN Norm(sum[2], sum[1])

\* lines 14-30: the other vertices of the faces of the index that hold
\* vertexIndex; no index, no faces
getConnectedVertices(geometry, vertexIndex) ==
    LET indices == geometry.index
        faces == {<<indices[3 * k - 2], indices[3 * k - 1], indices[3 * k]>> :
                     k \in 1 .. (Len(indices) \div 3)}
    IN {idx \in VertexIndices(geometry) :
           /\ idx # vertexIndex
           /\ \E face \in faces : vertexIndex \in Range(face) /\ idx \in Range(face)}

\* The session of this variant is the pointer's point.  positionsAtDown is
\* history, read by no handler: the vertex positions at the pointer down
\* that opened the session.
onPointerDownConnected(i, point) ==
    /\ i \in DOMAIN dragStart
    /\ IF Selected(selectedElements, vertices[i].vertexIndex)
       THEN dragStart' = [dragStart EXCEPT ![i] =
                [point |-> point,
                 positionsAtDown |-> content[selectedObject].geometry.position.array]]
       ELSE UNCHANGED dragStart
    /\ UNCHANGED <<objects, selectedObject, selectedObjects, transformMode, editMode,
                   selectedElements, content, nextId, gizmoUses, vertices, isDragging,
                   updates>>

\* lines 49-65: originalPos is the dragged vertex before it moves, the
\* distance to a connected vertex is taken in the buffer as it is now
MoveConnected(geometry, vertexIndex, localDelta) ==
    LET positionAttribute == geometry.position
        originalPos == FromBufferAttribute(positionAttribute, vertexIndex)
        connectedVertices == getConnectedVertices(geometry, vertexIndex)
    IN [positionAttribute EXCEPT !.array =
          [j \in DOMAIN positionAttribute.array |->
              LET pos == positionAttribute.array[j]
              IN IF j - 1 = vertexIndex THEN VAdd(originalPos, localDelta)
                 ELSE IF j - 1 \in connectedVertices
                 THEN VAdd(pos, VMultiplyScalar(localDelta,
                                   ConnectedWeight(DistanceTo(originalPos, pos))))
                 ELSE pos]]

onPointerMoveConnected(i, point) ==
    /\ i \in DOMAIN dragStart
    /\ IF dragStart[i] = NoDrag \/ ~Selected(selectedElements, vertices[i].vertexIndex)
       THEN UNCHANGED vars
       ELSE LET geometry == content[selectedObject].geometry
                delta == VSub(point, dragStart[i].point)
                localDelta == ApplyInverse(delta, WorldMatrix(content, selectedObject))
                moved == MoveConnected(geometry, vertices[i].vertexIndex, localDelta)
            IN /\ content' = [content EXCEPT ![selectedObject].geometry =
                                 MarkUpdated(geometry, moved)]
               /\ dragStart' = [dragStart EXCEPT ![i].point = point]
               /\ updates' = updates + 1
               /\ UNCHANGED <<objects, selectedObject, selectedObjects, transformMode,
                              editMode, selectedElements, nextId, gizmoUses, vertices,
                              isDragging>>

(***************************************************************************)
(* findConnectedVertices of Scene.tsx, lines 291-315: the set of the other *)
(* two indices of every triple of the index that holds vertexIndex, found  *)
(* by the if / else if chain; no index, no neighbours.                     *)
(***************************************************************************)
RECURSIVE FindConnectedFrom(_, _, _, _)
FindConnectedFrom(index, vertexIndex, i, connectedIndices) ==
    IF i >= Len(index) THEN connectedIndices
    ELSE LET a == index[i + 1]
             b == index[i + 2]
             c == index[i + 3]
             added == IF a = vertexIndex THEN {b, c}
                      ELSE IF b = vertexIndex THEN {a, c}
                      ELSE IF c = vertexIndex THEN {a, b}
                      ELSE {}
         IN FindConnectedFrom(index, vertexIndex, i + 3, connectedIndices \cup added)

findConnectedVertices(geometry, vertexIndex) ==
    IF geometry.index = <<>> THEN {}
    ELSE FindConnectedFrom(geometry.index, vertexIndex, 0, {})

(***************************************************************************)
(* DraggableVertex of part_002, lines 7-87: every vertex within the radius *)
(* of the dragged one moves by the local delta times a falloff of its      *)
(* distance.                                                               *)
(***************************************************************************)
\* line 48: calculateFalloff(distance, 2)
SoftRadius == 2

\* the falloff without the test of line 16
calculateFalloffUnguarded(distanceSquared, radius) ==
    LET oneMinus == RSub(RInt(1), RDivInt(distanceSquared, radius * radius))
    IN RMul(oneMinus, oneMinus)

\* lines 15-20 on the squared distance: distance >= radius exactly when
\* distance^2 >= radius^2, and t^2 = distance^2 / radius^2
calculateFalloff(distanceSquared, radius) ==
    LET radiusSquared == RInt(radius * radius)
        gap == RSub(distanceSquared, radiusSquared)
        tSquared == RDivInt(distanceSquared, radius * radius)
        oneMinus == RSub(RInt(1), tSquared)
    IN IF gap[1] >= 0 THEN RInt(0) ELSE RMul(oneMinus, oneMinus)

\* a <= b for rationals
RLeq(a, b) == a[1] * b[2] <= b[1] * a[2]

\* Math.cos(Math.PI * t) at the multiples of 1/12 where the cosine is 0,
\* +-1/2, +-1 or a square root
CosPi(t) ==
    LET twelfths == (12 * t[1]) \div t[2]
        Root(n, d) == RSqrt(<<n, d>>)
        Neg(x) == <<-x[1], x[2]>>
    IN CASE twelfths = 0 -> RInt(1)
         [] twelfths = 2 -> Root(3, 4)
         [] twelfths = 3 -> Root(1, 2)
         [] twelfths = 4 -> <<1, 2>>
         [] twelfths = 6 -> RInt(0)
         [] twelfths = 8 -> <<-1, 2>>
         [] twelfths = 9 -> Neg(Root(1, 2))
         [] twelfths = 10 -> Neg(Root(3, 4))
         [] twelfths = 12 -> RInt(-1)

\* calculateFalloff of Scene.tsx, lines 585-589
calculateFalloffCosine(distance, radius) ==
    IF RLeq(RInt(radius), distance) THEN RInt(0)
    ELSE LET t == RDivInt(distance, radius)
             sum == RAdd(RInt(1), CosPi(t))
         IN Norm(sum[1], 2 * sum[2])

\* lines 22-28: the anchor is the world position of the handle's own mesh,
\* the vertex as MeshHelpers placed it.  positionsAtDown is history, read by
\* no handler.
onPointerDownSoft(i) ==
    /\ i \in DOMAIN dragStart
    /\ IF Selected(selectedElements, vertices[i].vertexIndex)
       THEN dragStart' = [dragStart EXCEPT ![i] =
                [point |-> vertices[i].vertex,
                 positionsAtDown |-> content[selectedObject].geometry.position.array]]
       ELSE UNCHANGED dragStart
    /\ UNCHANGED <<objects, selectedObject, selectedObjects, transformMode, editMode,
                   selectedElements, content, nextId, gizmoUses, vertices, isDragging,
                   updates>>

\* lines 42-54: the distances are taken in the buffer as it is now, to the
\* dragged vertex as it was before this move
MoveSoft(positionAttribute, vertexIndex, localDelta) ==
    LET selectedVertexPos == FromBufferAttribute(positionAttribute, vertexIndex)
    IN [positionAttribute EXCEPT !.array =
          [j \in DOMAIN positionAttribute.array |->
              LET vertex == positionAttribute.array[j]
                  influence == calculateFalloff(
                                   DistanceToSquared(vertex, selectedVertexPos), SoftRadius)
              IN IF influence[1] > 0
                 THEN VAdd(vertex, VMultiplyScalar(localDelta, influence))
                 ELSE vertex]]

onPointerMoveSoft(i, point) ==
    /\ i \in DOMAIN dragStart
    /\ IF dragStart[i] = NoDrag \/ ~Selected(selectedElements, vertices[i].vertexIndex)
       THEN UNCHANGED vars
       ELSE LET geometry == content[selectedObject].geometry
                delta == VSub(point, dragStart[i].point)
                localDelta == ApplyInverse(delta, WorldMatrix(content, selectedObject))
                moved == MoveSoft(geometry.position, vertices[i].vertexIndex, localDelta)
            IN /\ content' = [content EXCEPT ![selectedObject].geometry =
                                 MarkUpdated(geometry, moved)]
               /\ dragStart' = [dragStart EXCEPT ![i].point = point]
               /\ updates' = updates + 1
               /\ UNCHANGED <<objects, selectedObject, selectedObjects, transformMode,
                              editMode, selectedElements, nextId, gizmoUses, vertices,
                              isDragging>>

(***************************************************************************)
(* Specifications.                                                         *)
(***************************************************************************)
AllocatedIds == 1..(nextId - 1)

\* the contents a click can deliver: those of the objects in the store
StoreContents == {o.object : o \in Range(objects)}

\* MeshHelpers.handleElementSelect: selectElements([index])
ElementChoices == {<<0>>}

\* The store operations, without the gizmo: every pose stays the default one.
Next ==
    \/ /\ MeshCount < MaxMeshes
       /\ nextId <= MaxIds
       /\ \E name \in MeshNames : addObject(name)
       /\ UNCHANGED uiVars
    \/ /\ \E id \in AllocatedIds : removeObject(id)
       /\ UNCHANGED uiVars
    \/ /\ \E object \in {Null} \cup StoreContents : setSelectedObject(object)
       /\ UNCHANGED uiVars
    \/ /\ \E id \in Ids(objects) : toggleObjectSelection(id)
       /\ UNCHANGED uiVars
    \/ /\ clearSelection
       /\ UNCHANGED uiVars
    \/ /\ nextId <= MaxIds /\ createGroup
       /\ UNCHANGED uiVars
    \/ /\ \E id \in AllocatedIds : ungroup(id)
       /\ UNCHANGED uiVars
    \/ /\ \E mode \in EditModes : setEditMode(mode)
       /\ UNCHANGED uiVars
    \/ /\ \E indices \in ElementChoices : selectElements(indices)
       /\ UNCHANGED uiVars
    \/ /\ clearElementSelection
       /\ UNCHANGED uiVars

Spec == Init /\ [][Next]_vars

\* Grouping and ungrouping of objects the gizmo has moved, rotated and scaled.
PoseNext ==
    \/ /\ MeshCount < PoseMaxMeshes
       /\ nextId <= PoseMaxIds
       /\ \E name \in MeshNames : addObject(name)
       /\ UNCHANGED uiVars
    \/ /\ \E id \in Ids(objects) : toggleObjectSelection(id)
       /\ UNCHANGED uiVars
    \/ /\ nextId <= PoseMaxIds /\ createGroup
       /\ UNCHANGED uiVars
    \/ /\ \E id \in Ids(objects) : ungroup(id)
       /\ UNCHANGED uiVars
    \/ /\ \E mode \in TransformModes : setTransformMode(mode)
       /\ UNCHANGED uiVars
    \/ /\ \E p \in GizmoPositions, r \in GizmoRotations, s \in GizmoScales :
             transformControls(p, r, s)
       /\ UNCHANGED uiVars

PoseSpec == Init /\ [][PoseNext]_vars

\* Grouping of freshly inserted objects the gizmo has moved, rotated and scaled.
GroupNext ==
    \/ /\ MeshCount < GroupMaxMeshes
       /\ nextId <= GroupMaxIds
       /\ \E name \in MeshNames : addObject(name)
       /\ UNCHANGED uiVars
    \/ /\ \E id \in Ids(objects) : toggleObjectSelection(id)
       /\ UNCHANGED uiVars
    \/ /\ nextId <= GroupMaxIds /\ createGroup
       /\ UNCHANGED uiVars
    \/ /\ \E mode \in TransformModes : setTransformMode(mode)
       /\ UNCHANGED uiVars
    \/ /\ \E p \in GizmoPositions, r \in GizmoRotations, s \in GizmoScales :
             transformControls(p, r, s)
       /\ UNCHANGED uiVars

GroupSpec == Init /\ [][GroupNext]_vars

\* the vertex handles a click can hit
ElementIndices == {0}

\* The store operations with toggleVisibility, on a smaller store, the
\* element selection made through the vertex handles.
VisNext ==
    \/ /\ MeshCount < VisMaxMeshes
       /\ nextId <= VisMaxIds
       /\ \E name \in MeshNames : addObject(name)
       /\ UNCHANGED uiVars
    \/ /\ \E id \in AllocatedIds : removeObject(id)
       /\ UNCHANGED uiVars
    \/ /\ \E object \in {Null} \cup StoreContents : setSelectedObject(object)
       /\ UNCHANGED uiVars
    \/ /\ \E id \in Ids(objects) : toggleObjectSelection(id)
       /\ UNCHANGED uiVars
    \/ /\ clearSelection
       /\ UNCHANGED uiVars
    \/ /\ nextId <= VisMaxIds /\ createGroup
       /\ UNCHANGED uiVars
    \/ /\ \E id \in AllocatedIds : ungroup(id)
       /\ UNCHANGED uiVars
    \/ /\ \E id \in AllocatedIds : toggleVisibility(id)
       /\ UNCHANGED uiVars
    \/ /\ \E mode \in EditModes : setEditMode(mode)
       /\ UNCHANGED uiVars
    \/ /\ \E index \in ElementIndices : handleElementSelect(index)
       /\ UNCHANGED uiVars
    \/ /\ clearElementSelection
       /\ UNCHANGED uiVars

VisSpec == Init /\ [][VisNext]_vars

\* The store called directly: addObject with a parentId, known or not.
ApiNext ==
    \/ /\ MeshCount < ApiMaxMeshes
       /\ nextId <= ApiMaxIds
       /\ \E name \in MeshNames : addObject(name)
       /\ UNCHANGED uiVars
    \/ /\ MeshCount < ApiMaxMeshes
       /\ nextId <= ApiMaxIds
       /\ \E name \in MeshNames, parentId \in AllocatedIds :
             addObjectWithParent(name, parentId)
       /\ UNCHANGED uiVars
    \/ /\ \E id \in AllocatedIds : removeObject(id)
       /\ UNCHANGED uiVars
    \/ /\ \E object \in {Null} \cup StoreContents : setSelectedObject(object)
       /\ UNCHANGED uiVars
    \/ /\ \E id \in Ids(objects) : toggleObjectSelection(id)
       /\ UNCHANGED uiVars
    \/ /\ nextId <= ApiMaxIds /\ createGroup
       /\ UNCHANGED uiVars
    \/ /\ \E id \in AllocatedIds : ungroup(id)
       /\ UNCHANGED uiVars

ApiSpec == Init /\ [][ApiNext]_vars

RenameMaxMeshes == 2
RenameMaxIds == 4

\* the texts typed into the rename input, or passed to the store
EditingNames == {"", " ", "Box", " Box "}

\* Renaming: through the layers panel, and with the store called directly.
RenameNext ==
    \/ /\ MeshCount < RenameMaxMeshes
       /\ nextId <= RenameMaxIds
       /\ \E name \in MeshNames : addObject(name)
       /\ UNCHANGED uiVars
    \/ /\ \E id \in AllocatedIds : removeObject(id)
       /\ UNCHANGED uiVars
    \/ /\ \E object \in {Null} \cup StoreContents : setSelectedObject(object)
       /\ UNCHANGED uiVars
    \/ /\ \E editingId \in {Null} \cup AllocatedIds, editingName \in EditingNames :
             saveEdit(editingId, editingName)
       /\ UNCHANGED uiVars
    \/ /\ \E id \in AllocatedIds, name \in EditingNames : updateObjectName(id, name)
       /\ UNCHANGED uiVars

RenameSpec == Init /\ [][RenameNext]_vars

\* the world-space points a pointer event on a handle can carry
PointerPoints == {Vec(0, 0), Vec(1, 0)}

\* the vertex handles a click or a pointer event can hit
HandleIndices == {0, 1}

\* the store operations around the vertex handles: one mesh, selected,
\* moved with the gizmo, switched between the edit modes, its vertices
\* selected by a click on a handle
HandlesStoreNextOn(handles, unique) ==
    \/ /\ MeshCount < 1
       /\ \E name \in MeshNames : addObject(name)
       /\ Rerender(unique)
    \/ /\ \E object \in {Null} \cup StoreContents : setSelectedObject(object)
       /\ Rerender(unique)
    \/ /\ \E mode \in {"object", "vertex"} : setEditMode(mode)
       /\ Rerender(unique)
    \/ /\ \E i \in handles : onClick(i)
       /\ Rerender(unique)
    \/ /\ \E p \in GizmoPositions, r \in GizmoRotations, s \in GizmoScales :
             transformControls(p, r, s)
       /\ Rerender(unique)

HandlesStoreNext(unique) == HandlesStoreNextOn(HandleIndices, unique)

\* The handles of Scene.tsx, lines 7-128.
DragNext ==
    \/ HandlesStoreNext(FALSE)
    \/ \E i \in HandleIndices, point \in PointerPoints : onPointerDown(i, point)
    \/ /\ updates < MaxUpdates
       /\ \E i \in HandleIndices, point \in PointerPoints : onPointerMove(i, point)
    \/ \E i \in HandleIndices : onPointerUp(i)

DragSpec == Init /\ [][DragNext]_vars

\* The same handles on a mesh the scale gizmo can flatten: a scale of 0 on
\* the first axis makes the world matrix of the mesh singular.
FlatScales == {<<0, 1>>}

FlatNext ==
    \/ HandlesStoreNext(FALSE)
    \/ /\ \E mode \in {"translate", "scale"} : setTransformMode(mode)
       /\ Rerender(FALSE)
    \/ /\ transformMode = "scale"
       /\ \E p \in GizmoPositions, r \in GizmoRotations, s \in FlatScales :
             transformControls(p, r, s)
       /\ Rerender(FALSE)
    \/ \E i \in HandleIndices, point \in PointerPoints : onPointerDown(i, point)
    \/ /\ updates < MaxUpdates
       /\ \E i \in HandleIndices, point \in PointerPoints : onPointerMove(i, point)
    \/ \E i \in HandleIndices : onPointerUp(i)

FlatSpec == Init /\ [][FlatNext]_vars

\* The handles of part_001, lines 239-315 (the direct variant).
DirectNext ==
    \/ HandlesStoreNext(TRUE)
    \/ \E i \in HandleIndices, point \in PointerPoints : onPointerDownDirect(i, point)
    \/ /\ updates < MaxUpdates
       /\ \E i \in HandleIndices, point \in PointerPoints : onPointerMoveDirect(i, point)
    \/ \E i \in HandleIndices : onPointerUpDirect(i)

DirectSpec == Init /\ [][DirectNext]_vars

(***************************************************************************)
(* The adjacency functions on the geometries a mesh can carry: the         *)
(* specification starts with one mesh, selected, in vertex mode, whose     *)
(* geometry is drawn from GeometryInputs; a pointer down on a selected     *)
(* handle computes and keeps calculateVertexConnections of it.             *)
(***************************************************************************)
MaxStreamVertices == 6
MaxIndexedVertices == 4
MaxFaces == 2

\* vertex j of an input geometry: the corners of the box first, further
\* ones below them
StreamVertex(j) == <<Half(2 * (j % 2) - 1), Half(1 - 2 * (j \div 2))>>

\* the triples of three different vertex indices below n
Triangles(n) ==
    {t \in (0 .. (n - 1)) \X (0 .. (n - 1)) \X (0 .. (n - 1)) :
        t[1] # t[2] /\ t[2] # t[3] /\ t[1] # t[3]}

\* the index buffers of one to MaxFaces triangles over n vertices
IndexBuffers(n) ==
    UNION {{t} : t \in Triangles(n)}
    \cup (IF MaxFaces >= 2
          THEN {t \o u : t \in Triangles(n), u \in Triangles(n)} ELSE {})

GeometryWith(n, index) ==
    BufferGeometry([j \in 1 .. n |-> StreamVertex(j - 1)], index)

\* indexed geometries of 3 to MaxIndexedVertices vertices, and non-indexed
\* ones (a bare vertex stream) of 3 to MaxStreamVertices vertices
GeometryInputs ==
    {GeometryWith(n, index) :
        n \in 3 .. MaxIndexedVertices, index \in IndexBuffers(MaxIndexedVertices)}
    \cup {GeometryWith(n, <<>>) : n \in 3 .. MaxStreamVertices}

InitAdjacency ==
    \E geometry \in GeometryInputs :
       /\ \A k \in DOMAIN geometry.index : geometry.index[k] < VertexCount(geometry)
       /\ content = <<[NewMesh EXCEPT !.geometry = geometry]>>
       /\ objects = AddObjectObjects(<<>>, 1, 1, "Cube", Null)
       /\ nextId = 2
       /\ selectedObject = 1
       /\ selectedObjects = {}
       /\ transformMode = "translate"
       /\ editMode = "vertex"
       /\ selectedElements = <<>>
       /\ gizmoUses = 0
       /\ vertices = MeshHelpersVertices(content, 1, FALSE)
       /\ dragStart = [i \in DOMAIN vertices |-> NoDrag]
       /\ isDragging = [i \in DOMAIN vertices |-> FALSE]
       /\ updates = 0

AdjacencyNext ==
    \/ /\ \E i \in HandleIndices : onClick(i)
       /\ Rerender(FALSE)
    \/ \E i \in HandleIndices, point \in PointerPoints : onPointerDown(i, point)
    \/ \E i \in HandleIndices : onPointerUp(i)

AdjacencySpec == InitAdjacency /\ [][AdjacencyNext]_vars

(***************************************************************************)
(* The falloff on a row of vertices half a unit apart: the specification   *)
(* starts with such a mesh selected in vertex mode, and the soft selection *)
(* handlers drag one of its first two vertices.                            *)
(***************************************************************************)
MaxLineVertices == 7
MaxRadius == 3
MaxFalloffUpdates == 1

LineGeometry ==
    BufferGeometry([j \in 1 .. MaxLineVertices |-> <<Norm(j - 1, 2), RInt(0)>>], <<>>)

InitFalloff ==
    /\ content = <<[NewMesh EXCEPT !.geometry = LineGeometry]>>
    /\ objects = AddObjectObjects(<<>>, 1, 1, "Cube", Null)
    /\ nextId = 2
    /\ selectedObject = 1
    /\ selectedObjects = {}
    /\ transformMode = "translate"
    /\ editMode = "vertex"
    /\ selectedElements = <<>>
    /\ gizmoUses = 0
    /\ vertices = MeshHelpersVertices(content, 1, TRUE)
    /\ dragStart = [i \in DOMAIN vertices |-> NoDrag]
    /\ isDragging = [i \in DOMAIN vertices |-> FALSE]
    /\ updates = 0

FalloffNext ==
    \/ /\ \E i \in HandleIndices : onClick(i)
       /\ Rerender(TRUE)
    \/ \E i \in HandleIndices : onPointerDownSoft(i)
    \/ /\ updates < MaxFalloffUpdates
       /\ \E i \in HandleIndices, point \in PointerPoints : onPointerMoveSoft(i, point)
    \/ \E i \in HandleIndices : onPointerUp(i)

FalloffSpec == InitFalloff /\ [][FalloffNext]_vars

\* the handle the drags of the weighted variants are made on
WeightedHandles == {0}

\* The handles of part_001, lines 7-97 (the connected variant).
ConnectedNext ==
    \/ HandlesStoreNextOn(WeightedHandles, FALSE)
    \/ \E i \in WeightedHandles, point \in PointerPoints : onPointerDownConnected(i, point)
    \/ /\ updates < MaxUpdates
       /\ \E i \in WeightedHandles, point \in PointerPoints :
             onPointerMoveConnected(i, point)
    \/ \E i \in WeightedHandles : onPointerUp(i)

ConnectedSpec == Init /\ [][ConnectedNext]_vars

\* The handles of part_002, lines 7-87 (the soft selection variant).
SoftNext ==
    \/ HandlesStoreNextOn(WeightedHandles, TRUE)
    \/ \E i \in WeightedHandles : onPointerDownSoft(i)
    \/ /\ updates < MaxUpdates
       /\ \E i \in WeightedHandles, point \in PointerPoints : onPointerMoveSoft(i, point)
    \/ \E i \in WeightedHandles : onPointerUp(i)

SoftSpec == Init /\ [][SoftNext]_vars

(***************************************************************************)
(* Properties of the store.                                                *)
(***************************************************************************)
\* the objects of the list whose parentId is id
ChildrenOf(objs, id) == {o \in Range(objs) : o.parentId = id}

\* the object of the list with this id
ObjectWithId(objs, id) == CHOOSE o \in Range(objs) : o.id = id

\* C1: every object's parentId, if present, is the id of an object that is
\* in the store.
C1_ParentIdsExist ==
    \A o \in Range(objects) : o.parentId # Null => o.parentId \in Ids(objects)

\* C2: removeObject(G), G having direct children, removes G and its children
\* from the store, and a primary selection that was the content of a child
\* is null afterwards.
C2_RemoveClearsChildSelection ==
    [][\A g \in Ids(objects) :
          (removeObject(g) /\ ChildrenOf(objects, g) # {})
          => /\ g \notin Ids(objects')
             /\ \A o \in ChildrenOf(objects, g) : o.id \notin Ids(objects')
             /\ (selectedObject \in {o.object : o \in ChildrenOf(objects, g)}
                   => selectedObject' = Null)]_vars

\* C3: whenever toggleObjectSelection(id) leaves exactly one id in the
\* multi-selection, the primary selection becomes the content of that
\* remaining id and the element selection becomes empty.
C3_TogglePromotesRemaining ==
    [][\A id \in Ids(objects) :
          (toggleObjectSelection(id) /\ Cardinality(selectedObjects') = 1
             /\ selectedObjects' \subseteq Ids(objects))
          => /\ \A rest \in selectedObjects' : selectedObject' = Find(objects, rest)
             /\ selectedElements' = <<>>]_vars

(***************************************************************************)
(* Properties of grouping and ungrouping.                                  *)
(***************************************************************************)
\* the selected objects that are in the store
Members(objs, sels) == {o \in Range(objs) : o.id \in sels}

\* C4: grouping a selection of two or more objects and immediately
\* ungrouping the new group restores the world position, rotation and scale
\* of every member.
C4_GroupUngroupRoundTrip ==
    Cardinality(selectedObjects) >= 2 =>
        LET g == Len(content) + 1
            grouped == CreateGroupContent(objects, content, selectedObjects)
            objs == GroupObjects(objects, content, selectedObjects, nextId, g)
            ungrouped == UngroupContent(objs, grouped, nextId)
        IN \A o \in Members(objects, selectedObjects) :
              WorldPose(ungrouped, o.object) = WorldPose(content, o.object)

\* C5: createGroup leaves the world position, rotation and scale of every
\* member as they were.
C5_GroupPreservesWorldPose ==
    [][(createGroup /\ Cardinality(selectedObjects) >= 2)
          => \A o \in Members(objects, selectedObjects) :
                WorldPose(content', o.object) = WorldPose(content, o.object)]_vars

\* C6: with every object of the store parentless (three or more of them)
\* and two of them selected, createGroup appends exactly one object, a
\* parentless group with a new id; the two selected objects get its id as
\* parentId; every other object and its content are unchanged; and twice the
\* group's world position is the sum of the two members' world positions
\* before the call.
C6_GroupScenario ==
    [][(/\ Cardinality(selectedObjects) = 2
        /\ selectedObjects \subseteq Ids(objects)
        /\ Len(objects) >= 3
        /\ \A o \in Range(objects) : o.parentId = Null
        /\ createGroup)
       => LET n == Len(objects)
              G == objects'[n + 1]
              center == GetWorldPosition(content', G.object)
          IN /\ Len(objects') = n + 1
             /\ G.id \notin Ids(objects)
             /\ G.parentId = Null
             /\ IsGroup(content', G)
             /\ \A i \in 1..n :
                   IF objects[i].id \in selectedObjects
                   THEN objects'[i] = [objects[i] EXCEPT !.parentId = G.id]
                   ELSE /\ objects'[i] = objects[i]
                        /\ content'[objects[i].object] = content[objects[i].object]
             /\ \E a, b \in Members(objects, selectedObjects) :
                   /\ a # b
                   /\ VAdd(center, center) =
                         VAdd(GetWorldPosition(content, a.object),
                              GetWorldPosition(content, b.object))]_vars

\* a parentless group at (1/2, 0), selected, with exactly two members, one
\* at world position (1, 0) and one at the origin, beside a third, parentless
\* mesh: createGroup has grouped A at (1, 0) and B at (0, 0), leaving C
C6_Witness ==
    \E G \in Range(objects) :
        /\ IsGroup(content, G)
        /\ G.parentId = Null
        /\ content[G.object].position = <<<<1, 2>>, <<0, 1>>>>
        /\ selectedObjects = {G.id}
        /\ selectedObject = G.object
        /\ Cardinality(ChildrenOf(objects, G.id)) = 2
        /\ \E a, b \in ChildrenOf(objects, G.id) :
              /\ GetWorldPosition(content, a.object) = Vec(1, 0)
              /\ GetWorldPosition(content, b.object) = Vec(0, 0)
        /\ \E C \in Range(objects) :
              /\ ~IsGroup(content, C)
              /\ C.parentId = Null

\* C7: the name given to a new group differs from the name of every group
\* already in the store.
C7_NewGroupNameUnique ==
    [][(createGroup /\ Cardinality(selectedObjects) >= 2)
          => objects'[Len(objects')].name \notin
                {o.name : o \in {x \in Range(objects) : IsGroup(content, x)}}]_vars

\* C8: ungroup(id) changes nothing unless id is the id of a group in the
\* store.
C8_UngroupOnlyGroups ==
    [][\A id \in AllocatedIds :
          (ungroup(id)
             /\ ~(id \in Ids(objects) /\ IsGroup(content, ObjectWithId(objects, id))))
          => UNCHANGED <<objects, selectedObject, selectedObjects>>]_vars

C10_UngroupClearsSelection ==
    [][\A id \in Ids(objects) :
          (ungroup(id) /\ IsGroup(content, ObjectWithId(objects, id)))
          => /\ selectedObject' = Null
             /\ selectedObjects' = {}
             /\ selectedElements' = <<>>]_vars

(***************************************************************************)
(* Properties of the selection, the visibility and the edit mode.          *)
(***************************************************************************)
\* C11: createGroup with fewer than two ids in the multi-selection changes
\* nothing: the object list, the primary selection, the multi-selection, the
\* element selection and the content hierarchy (no group is created) are as
\* before.
C11_GroupOfFewerThanTwo ==
    [][(Cardinality(selectedObjects) < 2 /\ createGroup)
          => UNCHANGED <<objects, selectedObject, selectedObjects,
                         selectedElements, content, nextId>>]_vars

\* two meshes, one of them alone in the multi-selection, and no identifier
\* ever given to a group
C11_Witness ==
    /\ Cardinality(selectedObjects) = 1
    /\ Len(objects) = 2
    /\ nextId = 3
    /\ \A o \in Range(objects) : ~IsGroup(content, o)

\* C12: after createGroup with two or more ids selected, the last object of
\* the list is a group with a new id, the primary selection is its content
\* and the multi-selection is the set of its id alone.
C12_GroupSelected ==
    [][(Cardinality(selectedObjects) >= 2 /\ createGroup)
          => LET G == objects'[Len(objects')]
             IN /\ IsGroup(content', G)
                /\ G.id \notin Ids(objects)
                /\ selectedObject' = G.object
                /\ selectedObjects' = {G.id}]_vars

\* a group with two children that is the primary selection and alone in the
\* multi-selection
C12_Witness ==
    \E G \in Range(objects) :
        /\ IsGroup(content, G)
        /\ Cardinality(ChildrenOf(objects, G.id)) = 2
        /\ selectedObject = G.object
        /\ selectedObjects = {G.id}
        /\ Ids(objects) = AllocatedIds

\* C13: the element selection is non-empty only when editMode is vertex,
\* edge or face and the primary selection is the content of a mesh.
C13_ElementsOnlyInMeshEdit ==
    selectedElements # <<>>
        => /\ editMode \in {"vertex", "edge", "face"}
           /\ selectedObject # Null
           /\ content[selectedObject].kind = "Mesh"

\* C14: the primary selection is never the content of an object whose
\* visible flag is false.
C14_PrimaryNeverHidden ==
    \A o \in Range(objects) : o.object = selectedObject => o.visible

\* C15: toggleVisibility(id) flips the visible flag of the object with that
\* id and changes no other object; the primary selection becomes null when
\* that object was visible and its content was the primary selection, and is
\* unchanged otherwise.
C15_ToggleVisibility ==
    [][\A id \in AllocatedIds :
          toggleVisibility(id)
          => /\ Len(objects') = Len(objects)
             /\ \A i \in DOMAIN objects :
                   IF objects[i].id = id
                   THEN objects'[i] = [objects[i] EXCEPT !.visible = ~objects[i].visible]
                   ELSE objects'[i] = objects[i]
             /\ IF \E o \in Range(objects) :
                      o.id = id /\ o.visible /\ o.object = selectedObject
                THEN selectedObject' = Null
                ELSE selectedObject' = selectedObject]_vars

\* nothing was ever removed, and a hidden object is alone in the
\* multi-selection with no primary selection: it was promoted to primary
\* selection by a toggle and then hidden
C15_Witness ==
    /\ Ids(objects) = AllocatedIds
    /\ selectedObject = Null
    /\ \E o \in Range(objects) : ~o.visible /\ selectedObjects = {o.id}

\* C16: toggleObjectSelection(id) applied a second time gives back the
\* multi-selection the first application started from.
C16_ToggleTwice ==
    [][\A id \in Ids(objects) :
          toggleObjectSelection(id)
          => ToggledSelection(selectedObjects', id) = selectedObjects]_vars

\* one id in the multi-selection while the primary selection is the content
\* of another object of the store: the other id was toggled in and out again
C16_Witness ==
    /\ Ids(objects) = AllocatedIds
    /\ \E a, b \in Range(objects) :
          /\ a.id # b.id
          /\ selectedObjects = {a.id}
          /\ selectedObject = b.object

\* C17: setEditMode(m) is enabled in every state for every mode m, and after
\* it editMode is m and the element selection is empty.
C17_SetEditMode ==
    /\ [](\A m \in EditModes : ENABLED setEditMode(m))
    /\ [][\A m \in EditModes :
            setEditMode(m) => editMode' = m /\ selectedElements' = <<>>]_vars

\* face mode with no primary selection and no object in the store
C17_Witness ==
    /\ editMode = "face"
    /\ selectedElements = <<>>
    /\ selectedObject = Null
    /\ objects = <<>>

\* C18: after setSelectedObject(x), x a content or null, the primary
\* selection is x, the multi-selection is empty and the element selection is
\* empty.
C18_SetSelectedObject ==
    [][\A x \in {Null} \cup StoreContents :
          setSelectedObject(x)
          => /\ selectedObject' = x
             /\ selectedObjects' = {}
             /\ selectedElements' = <<>>]_vars

\* a group that is the primary selection while the multi-selection is empty
\* and its children are in the store
C18_Witness ==
    \E G \in Range(objects) :
        /\ IsGroup(content, G)
        /\ ChildrenOf(objects, G.id) # {}
        /\ selectedObject = G.object
        /\ selectedObjects = {}
        /\ selectedElements = <<>>

\* C19: addObject with a parentId that is not the id of an object in the
\* store leaves the object list unchanged.
C19_AddObjectInvalidParent ==
    [][\A name \in MeshNames, parentId \in AllocatedIds :
          (parentId \notin Ids(objects) /\ addObjectWithParent(name, parentId))
          => objects' = objects]_vars

\* C20: removeObject with an id that is not in the store leaves the object
\* list, the primary selection and the multi-selection unchanged.
C20_RemoveObjectNotFound ==
    [][\A id \in AllocatedIds :
          (id \notin Ids(objects) /\ removeObject(id))
          => UNCHANGED <<objects, selectedObject, selectedObjects>>]_vars

\* the names that are empty after trimming
BlankNames == {"", " "}

\* only the name of the object with this id differs, and it is name
OnlyNameChanges(id, name) ==
    /\ DOMAIN objects' = DOMAIN objects
    /\ \A k \in DOMAIN objects :
          objects'[k] = IF objects[k].id = id
                        THEN [objects[k] EXCEPT !.name = name] ELSE objects[k]
    /\ UNCHANGED <<selectedObject, selectedObjects, editMode, selectedElements, content>>

\* updateObjectName called with a name that is empty after trimming leaves
\* the object list as it was; with any other name only the name of the
\* object with that id changes.
C21_UpdateObjectNameBlank ==
    [][\A id \in AllocatedIds, name \in EditingNames :
          updateObjectName(id, name)
          => IF name \in BlankNames THEN objects' = objects
             ELSE OnlyNameChanges(id, name)]_vars

\* C21: a rename saved in the layers panel (saveEdit) with a text that is
\* empty after trimming changes nothing; with any other text only the name
\* of the object being edited changes, to the trimmed text.
C21_SaveEdit ==
    [][\A editingId \in {Null} \cup AllocatedIds, editingName \in EditingNames :
          saveEdit(editingId, editingName)
          => IF editingName \in BlankNames \/ editingId = Null
             THEN UNCHANGED vars
             ELSE OnlyNameChanges(editingId, Trim(editingName))]_vars

\* an object of the store carries the trimmed name
C21_Witness ==
    \E o \in Range(objects) : o.name = "Box"

\* the parentId of the object with this id; Null when the store has no such
\* object or it has no parentId
ParentIdOf(objs, id) ==
    IF id \in Ids(objs) THEN (CHOOSE o \in Range(objs) : o.id = id).parentId ELSE Null

\* the id reached from id by following parentId k times
RECURSIVE Climb(_, _, _)
Climb(objs, id, k) ==
    IF k = 0 \/ id = Null THEN id ELSE Climb(objs, ParentIdOf(objs, id), k - 1)

\* C22: following parentId from an object of the store never comes back to
\* that object.
C22_ParentAcyclic ==
    \A o \in Range(objects) :
       \A k \in 1 .. Len(objects) : Climb(objects, o.id, k) # o.id

\* an object added under a parent that was then grouped: two parentId
\* links in a row, the upper one to a group
C22_Witness ==
    \E o \in Range(objects) :
       LET p == ParentIdOf(objects, o.id)
           g == ParentIdOf(objects, p)
       IN /\ p \in Ids(objects)
          /\ g \in Ids(objects)
          /\ content[Find(objects, g)].kind = "Group"

(***************************************************************************)
(* Properties of the vertex handles.                                       *)
(***************************************************************************)
\* the identity as linear part: the world transform is a pure translation
Identity == <<<<1, 0>>, <<0, 1>>>>

\* the handles with an open drag session
OpenSessions == {i \in DOMAIN dragStart : dragStart[i] # NoDrag}

\* C23: a pointer down on a handle while a drag session is open does not
\* open, replace or re-anchor a session.
C23_OneDragSession ==
    [][\A i \in HandleIndices, point \in PointerPoints :
          (OpenSessions # {} /\ onPointerDown(i, point))
          => dragStart' = dragStart]_vars

\* C24: while the world transform of the mesh is a pure translation, a
\* pointer move in an open session puts the dragged vertex at its position
\* of the session plus (new point - anchor point).
C24_LocalDelta ==
    [][\A i \in HandleIndices, point \in PointerPoints :
          (/\ i \in OpenSessions
           /\ \E k \in DOMAIN selectedElements :
                 selectedElements[k] = vertices[i].vertexIndex
           /\ WorldMatrix(content, selectedObject).lin = Identity
           /\ onPointerMove(i, point))
          => FromBufferAttribute(content'[selectedObject].geometry.position,
                                 vertices[i].vertexIndex)
               = VAdd(dragStart[i].vertexPositions[vertices[i].vertexIndex + 1],
                      VSub(point, dragStart[i].point))]_vars

\* C25: a pointer down on a handle opens a drag session, anchored at the
\* pointer's point, if the handle's vertex is in the element selection, and
\* otherwise changes neither the sessions nor any vertex.
C25_BeginOnlyWhenSelected ==
    [][\A i \in HandleIndices, point \in PointerPoints :
          onPointerDown(i, point)
          => IF \E k \in DOMAIN selectedElements :
                   selectedElements[k] = vertices[i].vertexIndex
             THEN /\ dragStart'[i].point = point
                  /\ \A j \in DOMAIN dragStart : j # i => dragStart'[j] = dragStart[j]
                  /\ content' = content
             ELSE /\ dragStart' = dragStart
                  /\ content' = content]_vars

\* vertex 0 selected with an open session, the handle of the unselected
\* vertex 1 without one
C25_Witness ==
    /\ selectedElements = <<0>>
    /\ DOMAIN dragStart # {}
    /\ OpenSessions = {0}
    /\ vertices[1].vertexIndex = 1

\* C26: a pointer move on a handle with no open drag session changes no
\* vertex, does not mark the position buffer, and opens no session.
C26_UpdateWithoutSession ==
    [][\A i \in HandleIndices, point \in PointerPoints :
          (i \in DOMAIN dragStart /\ dragStart[i] = NoDrag /\ onPointerMove(i, point))
          => /\ content' = content
             /\ dragStart' = dragStart
             /\ updates' = updates]_vars

\* a selected vertex whose handle has no session, and a position buffer
\* that was never marked
C26_Witness ==
    /\ selectedElements = <<0>>
    /\ DOMAIN dragStart # {}
    /\ OpenSessions = {}
    /\ content[selectedObject].geometry.position.version = 0

\* C27: a pointer up on a handle leaves that handle without a session and
\* not dragging, changes no vertex and nothing of the store, and changes
\* nothing at all when the handle had no session.
C27_EndDrag ==
    [][\A i \in HandleIndices :
          onPointerUpDirect(i)
          => /\ dragStart'[i] = NoDrag
             /\ isDragging'[i] = FALSE
             /\ UNCHANGED <<objects, selectedObject, selectedObjects, editMode,
                            selectedElements, content>>
             /\ (dragStart[i] = NoDrag /\ ~isDragging[i]) => UNCHANGED vars]_vars

\* a vertex was dragged and the drag ended: the buffer was written, the
\* vertex is still selected, its handle has no session and is not dragging
C27_Witness ==
    /\ selectedElements = <<0>>
    /\ DOMAIN dragStart # {}
    /\ OpenSessions = {}
    /\ \A i \in DOMAIN isDragging : ~isDragging[i]
    /\ content[selectedObject].geometry.position.version > 0

\* C28: a pointer move of the direct variant changes the position of no
\* vertex other than the dragged one.
C28_DirectMovesTargetOnly ==
    [][\A i \in HandleIndices, point \in PointerPoints :
          onPointerMoveDirect(i, point)
          => \A h \in DOMAIN content :
                \A j \in VertexIndices(content[h].geometry) :
                   (h # selectedObject \/ j # vertices[i].vertexIndex)
                   => FromBufferAttribute(content'[h].geometry.position, j)
                        = FromBufferAttribute(content[h].geometry.position, j)]_vars

\* vertex 0 of the selected mesh is off its place in the box, every other
\* vertex is where the box has it
C28_Witness ==
    /\ selectedObject # Null
    /\ VertexCount(content[selectedObject].geometry) > 0
    /\ LET array == content[selectedObject].geometry.position.array
       IN /\ array[1] # BoxGeometry.position.array[1]
          /\ \A j \in 2 .. Len(array) : array[j] = BoxGeometry.position.array[j]

\* C29: a pointer move of the connected variant with local delta d moves
\* the dragged vertex by d, each vertex sharing a face with it by
\* d / (1 + dist0), dist0 being their distance at the pointer down that
\* opened the session, and no other vertex.
C29_ConnectedWeights ==
    [][\A i \in WeightedHandles, point \in PointerPoints :
          (/\ i \in OpenSessions
           /\ \E k \in DOMAIN selectedElements :
                 selectedElements[k] = vertices[i].vertexIndex
           /\ onPointerMoveConnected(i, point))
          => LET geometry == content[selectedObject].geometry
                 target == vertices[i].vertexIndex
                 d == ApplyInverse(VSub(point, dragStart[i].point),
                                   WorldMatrix(content, selectedObject))
                 atDown == dragStart[i].positionsAtDown
                 before == geometry.position.array
                 after == content'[selectedObject].geometry.position.array
             IN \A n \in VertexIndices(geometry) :
                   after[n + 1] =
                     IF n = target THEN VAdd(before[n + 1], d)
                     ELSE IF n \in getConnectedVertices(geometry, target)
                     THEN VAdd(before[n + 1],
                               VMultiplyScalar(d, ConnectedWeight(
                                   DistanceTo(atDown[target + 1], atDown[n + 1]))))
                     ELSE before[n + 1]]_vars

\* C30: in every pointer move of a session of the soft selection variant
\* with local delta d, each vertex moves by d times the falloff of its
\* distance to the dragged vertex in the positions at the pointer down that
\* opened the session.
C30_SoftWeightsFromDragStart ==
    [][\A i \in WeightedHandles, point \in PointerPoints :
          (/\ i \in OpenSessions
           /\ \E k \in DOMAIN selectedElements :
                 selectedElements[k] = vertices[i].vertexIndex
           /\ onPointerMoveSoft(i, point))
          => LET geometry == content[selectedObject].geometry
                 target == vertices[i].vertexIndex
                 d == ApplyInverse(VSub(point, dragStart[i].point),
                                   WorldMatrix(content, selectedObject))
                 atDown == dragStart[i].positionsAtDown
                 before == geometry.position.array
                 after == content'[selectedObject].geometry.position.array
             IN \A n \in VertexIndices(geometry) :
                   after[n + 1] =
                     VAdd(before[n + 1],
                          VMultiplyScalar(d, calculateFalloff(
                              DistanceToSquared(atDown[n + 1], atDown[target + 1]),
                              SoftRadius)))]_vars

\* C31: for every radius, both falloff functions give 1 at distance 0, 0 at
\* every distance from the radius on, a value from 0 to 1 everywhere, and
\* no larger value at a larger distance; a soft selection move applies the
\* falloff of radius 2 to every vertex.
C31_Falloff ==
    [][\A i \in HandleIndices, point \in PointerPoints :
          (/\ updates < MaxFalloffUpdates
           /\ i \in OpenSessions
           /\ \E k \in DOMAIN selectedElements :
                 selectedElements[k] = vertices[i].vertexIndex
           /\ onPointerMoveSoft(i, point))
          => LET before == content[selectedObject].geometry.position.array
                 after == content'[selectedObject].geometry.position.array
                 target == before[vertices[i].vertexIndex + 1]
                 d == ApplyInverse(VSub(point, dragStart[i].point),
                                   WorldMatrix(content, selectedObject))
                 Poly(n, r) == calculateFalloff(DistanceToSquared(before[n], target), r)
                 Cosine(n, r) == calculateFalloffCosine(DistanceTo(before[n], target), r)
                 Unit(w) == RLeq(RInt(0), w) /\ RLeq(w, RInt(1))
             IN /\ \A n \in DOMAIN before :
                      after[n] = VAdd(before[n], VMultiplyScalar(d, Poly(n, SoftRadius)))
                /\ \A r \in 1 .. MaxRadius : \A n, m \in DOMAIN before :
                      LET dn == DistanceTo(before[n], target)
                          dm == DistanceTo(before[m], target)
                      IN /\ dn = RInt(0) => (Poly(n, r) = RInt(1) /\ Cosine(n, r) = RInt(1))
                         /\ RLeq(RInt(r), dn)
                               => (Poly(n, r) = RInt(0) /\ Cosine(n, r) = RInt(0))
                         /\ Unit(Poly(n, r)) /\ Unit(Cosine(n, r))
                         /\ RLeq(dn, dm)
                               => /\ RLeq(Poly(m, r), Poly(n, r))
                                  /\ RLeq(Cosine(m, r), Cosine(n, r))]_vars

\* after a soft selection move on the first vertex of the row: it and its
\* neighbour have moved, the vertices two units away and further have not
C31_Witness ==
    /\ selectedObject # Null
    /\ Len(content[selectedObject].geometry.position.array) = MaxLineVertices
    /\ LET array == content[selectedObject].geometry.position.array
       IN /\ array[1] # LineGeometry.position.array[1]
          /\ array[2] # LineGeometry.position.array[2]
          /\ \A n \in 5 .. MaxLineVertices : array[n] = LineGeometry.position.array[n]

\* C34: an update of a drag on a mesh whose world matrix cannot be inverted
\* writes no vertex: the position buffer is as it was.
C34_SingularSkipsUpdate ==
    [][\A i \in HandleIndices, point \in PointerPoints :
          (/\ updates < MaxUpdates
           /\ i \in OpenSessions
           /\ \E k \in DOMAIN selectedElements :
                 selectedElements[k] = vertices[i].vertexIndex
           /\ Determinant(WorldMatrix(content, selectedObject).lin) = 0
           /\ onPointerMove(i, point))
          => content'[selectedObject].geometry.position.array
                = content[selectedObject].geometry.position.array]_vars

\* C35: an update of a drag sets the dirty mark once, after all its vertex
\* writes, and recomputes the normals after the dirty mark: the update ends
\* with the buffer marked as it is now and the normals taken from it.
C35_WritesThenDirtyThenNormals ==
    [][\A i \in HandleIndices, point \in PointerPoints :
          (/\ updates < MaxUpdates
           /\ i \in OpenSessions
           /\ \E k \in DOMAIN selectedElements :
                 selectedElements[k] = vertices[i].vertexIndex
           /\ onPointerMove(i, point))
          => LET before == content[selectedObject].geometry
                 after == content'[selectedObject].geometry
             IN /\ after.position.version = before.position.version + 1
                /\ after.position.dirtyArray = after.position.array
                /\ after.normalsVersion = after.position.version
                /\ after.normalsArray = after.position.array]_vars

\* an update has written vertices: the buffer is not the box's, it was
\* marked dirty and the normals are those of the written buffer
C35_Witness ==
    /\ selectedObject # Null
    /\ LET geometry == content[selectedObject].geometry
       IN /\ geometry.position.array # BoxGeometry.position.array
          /\ geometry.position.version >= 1
          /\ geometry.position.dirtyArray = geometry.position.array
          /\ geometry.normalsArray = geometry.position.array

\* the geometry of the mesh being edited
EditedGeometry == content[selectedObject].geometry

\* some triangle of the index buffer holds both u and v
CoOccur(geometry, u, v) ==
    \E k \in 1 .. (Len(geometry.index) \div 3) :
       {u, v} \subseteq {geometry.index[3 * k - 2], geometry.index[3 * k - 1],
                        geometry.index[3 * k]}

\* C32: for an indexed mesh, in each of the three adjacency functions v is
\* a neighbour of u exactly when u # v and a triangle of the index buffer
\* holds both, so the relation is symmetric; and the lists a pointer down
\* keeps name no neighbour twice.
C32_IndexedAdjacency ==
    (selectedObject # Null /\ EditedGeometry.index # <<>>)
    => LET geometry == EditedGeometry
           Adjacent(u, v) == u # v /\ CoOccur(geometry, u, v)
       IN /\ \A u, v \in VertexIndices(geometry) :
                /\ v \in getConnectedVertices(geometry, u) <=> Adjacent(u, v)
                /\ v \in findConnectedVertices(geometry, u) <=> Adjacent(u, v)
                /\ v \in ConnectedVertices(calculateVertexConnections(geometry), u)
                      <=> Adjacent(u, v)
          /\ \A i \in OpenSessions :
                LET connections == dragStart[i].vertexConnections
                IN /\ DOMAIN connections \subseteq VertexIndices(geometry)
                   /\ \A u \in DOMAIN connections :
                         /\ Cardinality(Range(connections[u])) = Len(connections[u])
                         /\ \A v \in VertexIndices(geometry) :
                               v \in Range(connections[u]) <=> Adjacent(u, v)
                               /\ (v \in Range(connections[u])
                                     => u \in Range(connections[v]))

\* a session on a mesh of two triangles that share an edge: a vertex of the
\* shared edge has three neighbours, each kept once
C32_Witness ==
    /\ selectedObject # Null
    /\ Len(EditedGeometry.index) = 6
    /\ \E i \in OpenSessions :
          \E u \in DOMAIN dragStart[i].vertexConnections :
             Len(dragStart[i].vertexConnections[u]) = 3

\* C33: for a non-indexed mesh, in each of the three adjacency functions
\* the vertices 3k, 3k+1, 3k+2 are neighbours of each other, and every
\* index that appears is below the vertex count.
C33_NonIndexedAdjacency ==
    (selectedObject # Null /\ VertexCount(EditedGeometry) > 0
       /\ EditedGeometry.index = <<>>)
    => LET geometry == EditedGeometry
           count == VertexCount(geometry)
           connections == calculateVertexConnections(geometry)
           Valid(indices) == \A v \in indices : v < count
       IN /\ Valid(DOMAIN connections)
          /\ \A u \in DOMAIN connections : Valid(Range(connections[u]))
          /\ \A u \in VertexIndices(geometry) :
                /\ Valid(getConnectedVertices(geometry, u))
                /\ Valid(findConnectedVertices(geometry, u))
                /\ \A v \in VertexIndices(geometry) :
                      (u # v /\ u \div 3 = v \div 3)
                      => /\ v \in ConnectedVertices(connections, u)
                         /\ v \in getConnectedVertices(geometry, u)
                         /\ v \in findConnectedVertices(geometry, u)

\* C36: in the snapshot variant, with the identity as world transform, a
\* pointer move to a point p in a session opened at p0 leaves the dragged
\* vertex at its position of the pointer down plus (p - p0).
C36_DragAccumulates ==
    [][\A i \in HandleIndices, point \in PointerPoints :
          (/\ i \in OpenSessions
           /\ \E k \in DOMAIN selectedElements :
                 selectedElements[k] = vertices[i].vertexIndex
           /\ WorldMatrix(content, selectedObject).lin = Identity
           /\ WorldMatrix(content, selectedObject).t = ZeroVec
           /\ onPointerMove(i, point))
          => FromBufferAttribute(content'[selectedObject].geometry.position,
                                 vertices[i].vertexIndex)
               = VAdd(dragStart[i].vertexPositions[vertices[i].vertexIndex + 1],
                      VSub(point, dragStart[i].pointAtDown))]_vars

\* C37: a handle with an open drag session is the handle of a vertex that
\* is in the element selection.
C37_SessionImpliesSelected ==
    \A i \in OpenSessions :
       \E k \in DOMAIN selectedElements : selectedElements[k] = vertices[i].vertexIndex

(***************************************************************************)
(* Properties relating the selections, the store and the content.          *)
(***************************************************************************)
\* C38: the primary selection is null or the content of an object that is
\* in the store.
C38_PrimaryInStore ==
    selectedObject = Null \/ selectedObject \in StoreContents

\* C39: every id of the multi-selection is the id of an object that is in
\* the store.
C39_MultiSelectionInStore ==
    selectedObjects \subseteq Ids(objects)

\* a group was removed together with its children while another object
\* was in the multi-selection: three ids are gone from the store and a
\* selected one is left
C39_Witness ==
    /\ selectedObjects # {}
    /\ selectedObjects \subseteq Ids(objects)
    /\ Cardinality(AllocatedIds \ Ids(objects)) >= 3

\* C40: the content of an object is a child of the content of a group of
\* the store exactly when the object is in the store with that group's id
\* as parentId.
C40_ParentIdMatchesContent ==
    \A g \in Range(objects) : \A h \in DOMAIN content :
       content[g.object].kind = "Group"
       => (content[h].parent = g.object
             <=> \E o \in Range(objects) : o.object = h /\ o.parentId = g.id)

====
